---------------------------- MODULE Spec2Model ----------------------------
(***************************************************************************)
(* Model of server.py: the /chat and /reload-docs handlers of the          *)
(* BroOffline backend, the module-level index load, and the document       *)
(* directory they read.                                                    *)
(*                                                                         *)
(* app.run (server.py:165) serves every request on a thread of its own,    *)
(* so the handlers interleave at every access to the global index and to   *)
(* the document directory.  Process 0 is the module import (server.py:37), *)
(* processes 1..MaxInFlight are the threads handling requests.             *)
(*                                                                         *)
(* A text is a sequence of one-character strings.  The calls into Ollama   *)
(* and llama_index (load_data, from_documents, complete, query) either     *)
(* return or raise; a raise in a handler is answered with status 500.      *)
(***************************************************************************)
EXTENDS Integers, Sequences, FiniteSets

(***************************************************************************)
(* Bounds of the model.                                                    *)
(***************************************************************************)
MaxInFlight == 2      \* requests being handled at the same time
MaxChanges == 1       \* changes made to the document directory
MaxParts == 2         \* fragments a message is put together from

(***************************************************************************)
(* Texts: str.strip, str.lower and the substring test `k in s`.            *)
(***************************************************************************)
Whitespace == {" ", "\t", "\n"}

UpperToLower ==
  [c \in {"F", "I", "L", "E", "D", "O", "C", "S", "U", "T", "À", "Ệ"} |->
     CASE c = "F" -> "f" [] c = "I" -> "i" [] c = "L" -> "l" [] c = "E" -> "e"
       [] c = "D" -> "d" [] c = "O" -> "o" [] c = "C" -> "c" [] c = "S" -> "s"
       [] c = "U" -> "u" [] c = "T" -> "t" [] c = "À" -> "à" [] c = "Ệ" -> "ệ"]

LowerChar(c) == IF c \in DOMAIN UpperToLower THEN UpperToLower[c] ELSE c

Lower(s) == [i \in 1..Len(s) |-> LowerChar(s[i])]

RECURSIVE LStrip(_)
LStrip(s) ==
  IF s # <<>> /\ Head(s) \in Whitespace THEN LStrip(Tail(s)) ELSE s

RECURSIVE RStrip(_)
RStrip(s) ==
  IF s # <<>> /\ s[Len(s)] \in Whitespace
    THEN RStrip(SubSeq(s, 1, Len(s) - 1))
    ELSE s

Strip(s) == RStrip(LStrip(s))

Contains(s, k) ==
  \E i \in 1..(Len(s) - Len(k) + 1) : SubSeq(s, i, i + Len(k) - 1) = k

Keywords ==
  { <<"t", "à", "i", " ", "l", "i", "ệ", "u">>,
    <<"d", "o", "c", "u", "m", "e", "n", "t">>,
    <<"f", "i", "l", "e">>,
    <<"d", "o", "c", "s">> }

HasKeyword(s) == \E k \in Keywords : Contains(Lower(s), k)

(***************************************************************************)
(* Request bodies.  request.json is None (NoJson: the body is JSON null,   *)
(* or there is no JSON body and Flask yields None) or a JSON object; an    *)
(* object is given by the keys it has.  The message is a text or a JSON    *)
(* value that is no string, the mode is a string.                          *)
(***************************************************************************)
Fragments ==
  { <<" ">>, <<"\n">>, <<"F", "I">>, <<"l", "e">>, <<"d", "o", "c">>,
    <<"S">>, <<"u", "m", "e", "n", "t">>, <<"t", "à", "i", " ">>,
    <<"L", "I", "Ệ", "U">> }

RECURSIVE TextsOf(_)
TextsOf(n) ==
  IF n = 0 THEN {<<>>}
  ELSE LET shorter == TextsOf(n - 1)
       IN  shorter \cup {t \o f : t \in shorter, f \in Fragments}

AllTexts == TextsOf(MaxParts)

Text(s) == [isStr |-> TRUE, chars |-> s]
NotAString == [isStr |-> FALSE, chars |-> <<>>]

Modes == {"auto", "llm", "docs", "LLM", "web", ""}

NoJson == [json |-> FALSE, keys |-> {}, message |-> NotAString, mode |-> ""]

Object(keys, message, mode) ==
  [json |-> TRUE, keys |-> keys, message |-> message, mode |-> mode]

AllBodies ==
  {NoJson, Object({}, NotAString, ""), Object({"other"}, NotAString, "")}
    \cup {Object({"mode"}, NotAString, m) : m \in Modes}
    \cup {Object({"message"}, v, "") : v \in {Text(s) : s \in AllTexts} \cup {NotAString}}
    \cup {Object({"message", "mode"}, v, m) :
            v \in {Text(s) : s \in AllTexts} \cup {NotAString}, m \in Modes}

hi == <<"h", "i">>
docsPlease == <<" ", "D", "o", "c", "s", " ">>

CoreBodies ==
  { NoJson,
    Object({"message"}, Text(hi), ""),
    Object({"message"}, Text(docsPlease), ""),
    Object({"message", "mode"}, Text(docsPlease), "web") }

Truthy(data) == data.json /\ data.keys # {}

\* Variant: the body is tested with `data is None`.
MissingMessageOnlyNone(data) == ~data.json

\* if not data or "message" not in data
MissingMessage(data) == ~Truthy(data) \/ "message" \notin data.keys

GetMode(data) == IF "mode" \in data.keys THEN data.mode ELSE "auto"

\* Variant: the keywords are looked for without lower-casing the message.
AutoDetectCaseSensitive(user_message) ==
  IF \E k \in Keywords : Contains(user_message, k) THEN "docs" ELSE "llm"

AutoDetect(user_message) == IF HasKeyword(user_message) THEN "docs" ELSE "llm"

\* Variant: the keywords decide even when a mode is given.
ResolveModeAlwaysDetects(mode, user_message) == AutoDetect(user_message)

\* Variant: any mode that is neither llm nor docs is taken for auto.
ResolveModeDefaultsToAuto(mode, user_message) ==
  IF mode \in {"llm", "docs"} THEN mode ELSE AutoDetect(user_message)

ResolveMode(mode, user_message) ==
  IF mode = "auto" THEN AutoDetect(user_message) ELSE mode

(***************************************************************************)
(* State.                                                                  *)
(*   dirExists, dirFiles  the document directory ./docs and its files,     *)
(*                        each with the revision of its content            *)
(*   dirLog               every content the directory has had, in order;   *)
(*                        the version of a content is its place in the log *)
(*   index                the global index: the documents it was built     *)
(*                        from and the version of the directory they were  *)
(*                        read at                                          *)
(*   th                   the locals of each process and where it stands   *)
(*   resp                 the response of each request being handled       *)
(*   reloaded             the newest directory version at the arrival of a *)
(*                        /reload-docs request that has answered ok; a     *)
(*                        docs request keeps in floor the value it found   *)
(*                        when it arrived                                  *)
(***************************************************************************)
VARIABLES dirExists, dirFiles, dirLog, index, th, resp, reloaded

vars == <<dirExists, dirFiles, dirLog, index, th, resp, reloaded>>

DocNames == {"a.txt"}

File(d, rev) == [name |-> d, rev |-> rev]

Names(files) == {f.name : f \in files}

Main == 0
Threads == 1..MaxInFlight
Procs == {Main} \cup Threads

Ver == Len(dirLog) - 1

NoIndex == [docs |-> {}, ver |-> -1]

Idle ==
  [kind |-> "idle", pc |-> "idle", data |-> NoJson, user_message |-> <<>>,
   mode |-> "", documents |-> NoIndex, built |-> NoIndex, engine |-> NoIndex,
   llmCalls |-> 0, queryCalls |-> 0, arrivedAt |-> 0, floor |-> 0]

NoResp ==
  [code |-> 0, mode |-> "", error |-> "", named |-> "", status |-> "",
   sent |-> <<>>, snap |-> NoIndex]

Serving == th[Main].pc = "serving"

Max(a, b) == IF a >= b THEN a ELSE b

Init ==
  /\ dirExists \in BOOLEAN
  /\ dirFiles \in (IF dirExists
                     THEN {{File(d, 0) : d \in ds} : ds \in SUBSET DocNames}
                     ELSE {{}})
  /\ dirLog = <<dirFiles>>
  /\ index = NoIndex
  /\ th = [p \in Procs |->
             IF p = Main THEN [Idle EXCEPT !.kind = "startup", !.pc = "check"]
             ELSE Idle]
  /\ resp = [p \in Procs |-> NoResp]
  /\ reloaded = 0

(***************************************************************************)
(* Documents are written to and removed from the directory under the       *)
(* server.                                                                 *)
(***************************************************************************)
WriteDoc(d) ==
  /\ Ver < MaxChanges
  /\ dirExists
  /\ dirFiles' = {f \in dirFiles : f.name # d} \cup {File(d, Ver + 1)}
  /\ dirLog' = Append(dirLog, dirFiles')
  /\ UNCHANGED <<dirExists, index, th, resp, reloaded>>

RemoveDoc(d) ==
  /\ Ver < MaxChanges
  /\ d \in Names(dirFiles)
  /\ dirFiles' = {f \in dirFiles : f.name # d}
  /\ dirLog' = Append(dirLog, dirFiles')
  /\ UNCHANGED <<dirExists, index, th, resp, reloaded>>

(***************************************************************************)
(* A handler returns: its locals are gone, the request and the calls it    *)
(* made stay on record until the response is sent.                         *)
(***************************************************************************)
Returned(t) ==
  [Idle EXCEPT !.kind = t.kind, !.pc = "done", !.data = t.data,
               !.mode = t.mode, !.user_message = t.user_message,
               !.llmCalls = t.llmCalls, !.queryCalls = t.queryCalls,
               !.floor = t.floor]

(***************************************************************************)
(* An exception: the import dies, a request is answered 500.               *)
(***************************************************************************)
Raise(p) ==
  IF p = Main
    THEN /\ th' = [th EXCEPT ![p].pc = "crashed"]
         /\ UNCHANGED resp
    ELSE /\ th' = [th EXCEPT ![p] = Returned(th[p])]
         /\ resp' = [resp EXCEPT ![p] = [NoResp EXCEPT !.code = 500]]

(***************************************************************************)
(* load_or_create_index, run by the import and by /reload-docs.            *)
(***************************************************************************)
Loading(p) == th[p].kind \in {"startup", "reload"}

\* if not os.path.exists(DOCS_DIR): os.makedirs(DOCS_DIR)
LoadCheck(p) ==
  /\ Loading(p) /\ th[p].pc = "check"
  /\ dirExists' = TRUE
  /\ th' = [th EXCEPT ![p].pc = "read"]
  /\ UNCHANGED <<dirFiles, dirLog, index, resp, reloaded>>

\* documents = SimpleDirectoryReader(DOCS_DIR).load_data()
\* return VectorStoreIndex.from_documents(documents, embed_model=embed_model)
\* Either call may raise.  A strict reader is one that always raises on a
\* directory without files.
LoadRead(p, strict) ==
  /\ Loading(p) /\ th[p].pc = "read"
  /\ \/ /\ dirExists
        /\ strict => dirFiles # {}
        /\ LET documents == [docs |-> dirFiles, ver |-> Ver] IN
             th' = [th EXCEPT ![p].documents = documents,
                              ![p].built = documents,
                              ![p].pc = "assign"]
        /\ UNCHANGED resp
     \/ Raise(p)
  /\ UNCHANGED <<dirExists, dirFiles, dirLog, index, reloaded>>

\* index = load_or_create_index()   (module level)
StartupAssign ==
  /\ th[Main].kind = "startup" /\ th[Main].pc = "assign"
  /\ index' = th[Main].built
  /\ th' = [th EXCEPT ![Main].pc = "serving"]
  /\ UNCHANGED <<dirExists, dirFiles, dirLog, resp, reloaded>>

(***************************************************************************)
(* A request arrives on the lowest free thread; a thread ends when its     *)
(* response is sent.                                                       *)
(***************************************************************************)
Arrives(r) ==
  /\ Serving
  /\ th[r].kind = "idle"
  /\ \A q \in Threads : q < r => th[q].kind # "idle"

Respond(r) ==
  /\ th[r].pc = "done"
  /\ th' = [th EXCEPT ![r] = Idle]
  /\ resp' = [resp EXCEPT ![r] = NoResp]
  /\ UNCHANGED <<dirExists, dirFiles, dirLog, index, reloaded>>

(***************************************************************************)
(* /reload-docs                                                            *)
(***************************************************************************)
\* Variant: the reload drops the old index before it builds the new one.
ReloadStartClearsIndex(r, history) ==
  /\ Arrives(r)
  /\ index' = NoIndex
  /\ th' = [th EXCEPT ![r] = [Idle EXCEPT !.kind = "reload", !.pc = "check",
                                          !.arrivedAt =
                                            IF history THEN Ver ELSE 0]]
  /\ UNCHANGED <<dirExists, dirFiles, dirLog, resp, reloaded>>

\* With history the request keeps the version of the directory it arrived
\* at, for `reloaded`; without, arrivedAt, reloaded and floor stay 0.
ReloadStart(r, history) ==
  /\ Arrives(r)
  /\ th' = [th EXCEPT ![r] = [Idle EXCEPT !.kind = "reload", !.pc = "check",
                                          !.arrivedAt =
                                            IF history THEN Ver ELSE 0]]
  /\ UNCHANGED <<dirExists, dirFiles, dirLog, index, resp, reloaded>>

\* global index; index = load_or_create_index(); return jsonify(status ok)
ReloadAssign(r) ==
  /\ th[r].kind = "reload" /\ th[r].pc = "assign"
  /\ index' = th[r].built
  /\ th' = [th EXCEPT ![r] = Returned(th[r])]
  /\ resp' = [resp EXCEPT ![r] = [NoResp EXCEPT !.code = 200, !.status = "ok"]]
  /\ reloaded' = Max(reloaded, th[r].arrivedAt)
  /\ UNCHANGED <<dirExists, dirFiles, dirLog>>

(***************************************************************************)
(* /chat                                                                   *)
(***************************************************************************)
\* data = request.json ... mode resolved (server.py:125-137)
ChatParse(r, data) ==
  /\ Arrives(r)
  /\ LET arrived == [Idle EXCEPT !.kind = "chat", !.data = data] IN
       IF MissingMessage(data)
         THEN /\ th' = [th EXCEPT ![r] = [arrived EXCEPT !.pc = "done"]]
              /\ resp' = [resp EXCEPT ![r] =
                            [NoResp EXCEPT !.code = 400,
                                           !.error = "missing message"]]
         ELSE IF ~data.message.isStr
           THEN /\ th' = [th EXCEPT ![r] = [arrived EXCEPT !.pc = "done"]]
                /\ resp' = [resp EXCEPT ![r] = [NoResp EXCEPT !.code = 500]]
           ELSE LET user_message == Strip(data.message.chars)
                    mode == ResolveMode(GetMode(data), user_message)
                IN
                /\ th' = [th EXCEPT ![r] =
                            [arrived EXCEPT
                               !.user_message = user_message,
                               !.mode = mode,
                               !.floor = IF mode = "docs" THEN reloaded ELSE 0,
                               !.pc = "dispatch"]]
                /\ UNCHANGED resp
  /\ UNCHANGED <<dirExists, dirFiles, dirLog, index, reloaded>>

\* Variant: the response carries the mode the request gave.
ChatLLMEchoesRequestedMode(r) ==
  /\ th[r].kind = "chat" /\ th[r].pc = "dispatch"
  /\ th[r].mode = "llm"
  /\ th' = [th EXCEPT ![r] = Returned([th[r] EXCEPT !.llmCalls = @ + 1])]
  /\ \/ resp' = [resp EXCEPT ![r] =
                   [NoResp EXCEPT !.code = 200, !.mode = GetMode(th[r].data),
                                  !.sent = th[r].user_message]]
     \/ resp' = [resp EXCEPT ![r] = [NoResp EXCEPT !.code = 500]]
  /\ UNCHANGED <<dirExists, dirFiles, dirLog, index, reloaded>>

\* if mode == "llm": response = llm.complete(user_message)
ChatLLM(r) ==
  /\ th[r].kind = "chat" /\ th[r].pc = "dispatch"
  /\ th[r].mode = "llm"
  /\ th' = [th EXCEPT ![r] = Returned([th[r] EXCEPT !.llmCalls = @ + 1])]
  /\ \/ resp' = [resp EXCEPT ![r] =
                   [NoResp EXCEPT !.code = 200, !.mode = "llm",
                                  !.sent = th[r].user_message]]
     \/ resp' = [resp EXCEPT ![r] = [NoResp EXCEPT !.code = 500]]
  /\ UNCHANGED <<dirExists, dirFiles, dirLog, index, reloaded>>

\* Variant: a docs request rebuilds the global index from the directory.
ChatEngineRefreshes(r) ==
  /\ th[r].kind = "chat" /\ th[r].pc = "dispatch"
  /\ th[r].mode # "llm" /\ th[r].mode = "docs"
  /\ index' = [docs |-> dirFiles, ver |-> Ver]
  /\ th' = [th EXCEPT ![r].engine = index', ![r].pc = "query"]
  /\ UNCHANGED <<dirExists, dirFiles, dirLog, resp, reloaded>>

\* elif mode == "docs": query_engine = index.as_query_engine(llm=llm)
ChatEngine(r) ==
  /\ th[r].kind = "chat" /\ th[r].pc = "dispatch"
  /\ th[r].mode # "llm" /\ th[r].mode = "docs"
  /\ th' = [th EXCEPT ![r].engine = index, ![r].pc = "query"]
  /\ UNCHANGED <<dirExists, dirFiles, dirLog, index, resp, reloaded>>

\* Variant: the query is answered from the directory as it is now.
ChatQueryReadsDirectory(r) ==
  /\ th[r].kind = "chat" /\ th[r].pc = "query"
  /\ th' = [th EXCEPT ![r] = Returned([th[r] EXCEPT !.queryCalls = @ + 1])]
  /\ \/ resp' = [resp EXCEPT ![r] =
                   [NoResp EXCEPT !.code = 200, !.mode = "docs",
                                  !.sent = th[r].user_message,
                                  !.snap = [docs |-> dirFiles, ver |-> Ver]]]
     \/ resp' = [resp EXCEPT ![r] = [NoResp EXCEPT !.code = 500]]
  /\ UNCHANGED <<dirExists, dirFiles, dirLog, index, reloaded>>

\* response = query_engine.query(user_message)
ChatQuery(r) ==
  /\ th[r].kind = "chat" /\ th[r].pc = "query"
  /\ th' = [th EXCEPT ![r] = Returned([th[r] EXCEPT !.queryCalls = @ + 1])]
  /\ \/ resp' = [resp EXCEPT ![r] =
                   [NoResp EXCEPT !.code = 200, !.mode = "docs",
                                  !.sent = th[r].user_message,
                                  !.snap = th[r].engine]]
     \/ resp' = [resp EXCEPT ![r] = [NoResp EXCEPT !.code = 500]]
  /\ UNCHANGED <<dirExists, dirFiles, dirLog, index, reloaded>>

\* else: return jsonify({"error": f"Mode '{mode}' ..."}), 400
ChatBadMode(r) ==
  /\ th[r].kind = "chat" /\ th[r].pc = "dispatch"
  /\ th[r].mode # "llm" /\ th[r].mode # "docs"
  /\ th' = [th EXCEPT ![r] = Returned(th[r])]
  /\ resp' = [resp EXCEPT ![r] = [NoResp EXCEPT !.code = 400,
                                                !.error = "invalid mode",
                                                !.named = th[r].mode]]
  /\ UNCHANGED <<dirExists, dirFiles, dirLog, index, reloaded>>

(***************************************************************************)
(* Specifications.  Spec is the whole server, SpecHistory the same with    *)
(* the history of the reloads kept.  SpecChat is one thread handling       *)
(* /chat requests, with every body, on a server that has started.          *)
(***************************************************************************)
Next ==
  \/ \E d \in DocNames : WriteDoc(d)
  \/ \E d \in DocNames : RemoveDoc(d)
  \/ \E p \in Procs : LoadCheck(p)
  \/ \E p \in Procs : LoadRead(p, FALSE)
  \/ StartupAssign
  \/ \E r \in Threads : ReloadStart(r, FALSE)
  \/ \E r \in Threads : ReloadAssign(r)
  \/ \E r \in Threads : \E data \in CoreBodies : ChatParse(r, data)
  \/ \E r \in Threads : ChatLLM(r)
  \/ \E r \in Threads : ChatEngine(r)
  \/ \E r \in Threads : ChatQuery(r)
  \/ \E r \in Threads : ChatBadMode(r)
  \/ \E r \in Threads : Respond(r)

Spec == Init /\ [][Next]_vars

\* The whole server, with a reader that refuses a directory without files
\* and with the history of the reloads.
NextHistory ==
  \/ \E d \in DocNames : WriteDoc(d)
  \/ \E d \in DocNames : RemoveDoc(d)
  \/ \E p \in Procs : LoadCheck(p)
  \/ \E p \in Procs : LoadRead(p, TRUE)
  \/ StartupAssign
  \/ \E r \in Threads : ReloadStart(r, TRUE)
  \/ \E r \in Threads : ReloadAssign(r)
  \/ \E r \in Threads : \E data \in CoreBodies : ChatParse(r, data)
  \/ \E r \in Threads : ChatLLM(r)
  \/ \E r \in Threads : ChatEngine(r)
  \/ \E r \in Threads : ChatQuery(r)
  \/ \E r \in Threads : ChatBadMode(r)
  \/ \E r \in Threads : Respond(r)

SpecHistory == Init /\ [][NextHistory]_vars

InitChat ==
  /\ dirExists = TRUE
  /\ dirFiles = {File(d, 0) : d \in DocNames}
  /\ dirLog = <<dirFiles>>
  /\ index = [docs |-> dirFiles, ver |-> 0]
  /\ th = [p \in Procs |->
             IF p = Main THEN [Idle EXCEPT !.kind = "startup", !.pc = "serving"]
             ELSE Idle]
  /\ resp = [p \in Procs |-> NoResp]
  /\ reloaded = 0

NextChat ==
  \/ \E data \in AllBodies : ChatParse(1, data)
  \/ ChatLLM(1)
  \/ ChatEngine(1)
  \/ ChatQuery(1)
  \/ ChatBadMode(1)
  \/ Respond(1)

SpecChat == InitChat /\ [][NextChat]_vars

(***************************************************************************)
(* What a request asked for and how it was handled.                        *)
(***************************************************************************)
IsChat(r) == th[r].kind = "chat"

\* The body carries a 'message' that is a string.
HasText(r) ==
  /\ th[r].data.json
  /\ "message" \in th[r].data.keys
  /\ th[r].data.message.isStr

MessageOf(r) == th[r].data.message.chars

ModeGiven(r) == "mode" \in th[r].data.keys

Invoked(r) == th[r].llmCalls + th[r].queryCalls

\* The request went the llm way: no query, and once it is answered the
\* completion was called once and a 200 says mode llm.
HandledAsLlm(r) ==
  /\ th[r].mode = "llm"
  /\ th[r].queryCalls = 0
  /\ th[r].pc \in {"dispatch", "done"}
  /\ th[r].pc = "done" =>
       /\ th[r].llmCalls = 1
       /\ resp[r].code \in {200, 500}
       /\ resp[r].code = 200 => resp[r].mode = "llm"

\* The request went the docs way.
HandledAsDocs(r) ==
  /\ th[r].mode = "docs"
  /\ th[r].llmCalls = 0
  /\ th[r].pc \in {"dispatch", "query", "done"}
  /\ th[r].pc = "done" =>
       /\ th[r].queryCalls = 1
       /\ resp[r].code \in {200, 500}
       /\ resp[r].code = 200 => resp[r].mode = "docs"

\* The step is one of thread r's /chat handler.
ChatStep(r) == (IsChat(r) \/ th'[r].kind = "chat") /\ th'[r] # th[r]

DirUnchanged ==
  /\ dirExists' = dirExists
  /\ dirFiles' = dirFiles
  /\ dirLog' = dirLog

(***************************************************************************)
(* C1: a /chat request with a message and mode auto (or no mode) is        *)
(* handled in docs mode exactly when the message, stripped and lower-      *)
(* cased, contains "tài liệu", "document", "file" or "docs"; in llm mode   *)
(* otherwise, the empty message included.                                  *)
(***************************************************************************)
C1_Substrings ==
  { <<"t", "à", "i", " ", "l", "i", "ệ", "u">>,
    <<"d", "o", "c", "u", "m", "e", "n", "t">>,
    <<"f", "i", "l", "e">>,
    <<"d", "o", "c", "s">> }

C1_Mentions(text) ==
  \E k \in C1_Substrings : Contains(Lower(Strip(text)), k)

\* C1: with mode auto or absent, docs mode if the stripped, lower-cased
\* message mentions a keyword, llm mode if not.
C1_AutoDetection ==
  \A r \in Threads :
    (IsChat(r) /\ HasText(r) /\ (~ModeGiven(r) \/ th[r].data.mode = "auto")) =>
      IF C1_Mentions(MessageOf(r)) THEN HandledAsDocs(r) ELSE HandledAsLlm(r)

\* A message that holds a keyword only once lower-cased, no mode given,
\* answered in docs mode.
C1_Witness ==
  \E r \in Threads :
    /\ IsChat(r) /\ HasText(r) /\ ~ModeGiven(r)
    /\ C1_Mentions(MessageOf(r))
    /\ ~\E k \in C1_Substrings : Contains(MessageOf(r), k)
    /\ resp[r].code = 200 /\ resp[r].mode = "docs"

(***************************************************************************)
(* C2: a /chat request answered 200 invoked exactly one backend; the       *)
(* response's mode is llm when the completion was invoked, docs when the   *)
(* query engine was, and never auto.                                       *)
(***************************************************************************)
\* C2: a 200 of /chat has invoked one backend, and its mode names it.
C2_OneBackend ==
  \A r \in Threads :
    (IsChat(r) /\ resp[r].code = 200) =>
      /\ Invoked(r) = 1
      /\ resp[r].mode \in {"llm", "docs"}
      /\ resp[r].mode = "llm" <=> th[r].llmCalls = 1
      /\ resp[r].mode = "docs" <=> th[r].queryCalls = 1

\* A request that asked for mode auto, answered 200 by the completion.
C2_Witness ==
  \E r \in Threads :
    /\ IsChat(r) /\ ModeGiven(r) /\ th[r].data.mode = "auto"
    /\ resp[r].code = 200 /\ resp[r].mode = "llm"
    /\ th[r].llmCalls = 1 /\ th[r].queryCalls = 0

(***************************************************************************)
(* C4: a mode of llm or docs given in the request is used whatever the     *)
(* message holds.                                                          *)
(***************************************************************************)
\* C4: mode llm goes to the completion, mode docs to the query engine.
C4_ExplicitMode ==
  \A r \in Threads :
    (IsChat(r) /\ HasText(r) /\ ModeGiven(r)) =>
      /\ th[r].data.mode = "llm" => HandledAsLlm(r)
      /\ th[r].data.mode = "docs" => HandledAsDocs(r)

\* A message with a keyword, sent with mode llm, answered by the completion.
C4_Witness ==
  \E r \in Threads :
    /\ IsChat(r) /\ HasText(r) /\ ModeGiven(r) /\ th[r].data.mode = "llm"
    /\ C1_Mentions(MessageOf(r))
    /\ resp[r].code = 200 /\ resp[r].mode = "llm" /\ th[r].llmCalls = 1

(***************************************************************************)
(* C5: a /chat request with no JSON body, an empty one or one without a    *)
(* 'message' key is answered 400 with an error, no backend is invoked and  *)
(* no step of it changes the index.                                        *)
(***************************************************************************)
C5_NoMessage(r) ==
  ~th[r].data.json \/ th[r].data.keys = {} \/ "message" \notin th[r].data.keys

C5_Rejected ==
  \A r \in Threads :
    (IsChat(r) /\ C5_NoMessage(r)) =>
      /\ th[r].pc = "done"
      /\ resp[r].code = 400
      /\ resp[r].error = "missing message"
      /\ Invoked(r) = 0

\* C5: a body without a message is answered 400 at once, no backend is
\* invoked, and no step of the request changes the index.
C5_MissingMessage ==
  /\ []C5_Rejected
  /\ [][\A r \in Threads :
          (ChatStep(r) /\ (C5_NoMessage(r) \/ C5_NoMessage(r)')) =>
            index' = index]_vars

\* A JSON object that has a mode but no message, answered 400.
C5_Witness ==
  \E r \in Threads :
    /\ IsChat(r) /\ th[r].data.json /\ th[r].data.keys = {"mode"}
    /\ resp[r].code = 400 /\ resp[r].error = "missing message"

(***************************************************************************)
(* C6: a /chat request with a message and a mode other than auto, llm and  *)
(* docs is answered 400 with an error naming the mode; no backend is       *)
(* invoked and the keywords are not looked for.                            *)
(***************************************************************************)
\* C6: an unknown mode is answered 400 naming it, no backend is invoked.
C6_InvalidMode ==
  \A r \in Threads :
    (IsChat(r) /\ HasText(r) /\ ModeGiven(r)
       /\ th[r].data.mode \notin {"auto", "llm", "docs"}) =>
      /\ Invoked(r) = 0
      /\ th[r].mode = th[r].data.mode
      /\ th[r].pc \in {"dispatch", "done"}
      /\ th[r].pc = "done" =>
           /\ resp[r].code = 400
           /\ resp[r].error = "invalid mode"
           /\ resp[r].named = th[r].data.mode

\* A message with a keyword, sent with mode LLM, answered 400.
C6_Witness ==
  \E r \in Threads :
    /\ IsChat(r) /\ HasText(r) /\ ModeGiven(r) /\ th[r].data.mode = "LLM"
    /\ C1_Mentions(MessageOf(r))
    /\ resp[r].code = 400 /\ resp[r].named = "LLM"

(***************************************************************************)
(* Snapshots of the directory.                                             *)
(***************************************************************************)
\* ix holds exactly the files the directory had at one of its versions.
IsSnapshot(ix) ==
  /\ ix.ver \in 0..Ver
  /\ ix.docs = dirLog[ix.ver + 1]

\* The directory has held a file at every version: no load read it empty.
NeverEmpty == \A i \in 1..Len(dirLog) : dirLog[i] # {}

AnsweredFromDocs(r) ==
  IsChat(r) /\ resp[r].code = 200 /\ resp[r].mode = "docs"

(***************************************************************************)
(* C3: once a /reload-docs request has answered ok, every docs query that  *)
(* arrives later is answered from an index whose documents were read       *)
(* during or after that reload request, never from an older content of     *)
(* the directory.                                                          *)
(***************************************************************************)
\* C3: a docs answer rests on documents no older than the newest reload
\* that had answered ok when the request arrived.
C3_ReloadIsVisible ==
  \A r \in Threads :
    AnsweredFromDocs(r) => resp[r].snap.ver >= th[r].floor

(***************************************************************************)
(* C7: while requests are served the global index exists and is the whole  *)
(* result of one load: the files of the directory at one version.  The     *)
(* directory exists once a load is past its check.  A docs query works on  *)
(* such an index too.                                                      *)
(***************************************************************************)
\* C7: requests are served only once the index is loaded; the index and
\* every query engine are whole snapshots; the directory exists after the
\* check of a load.
C7_IndexLifecycle ==
  /\ \A r \in Threads : th[r].kind # "idle" => Serving
  /\ Serving => IsSnapshot(index)
  /\ \A r \in Threads :
       /\ (IsChat(r) /\ th[r].pc = "query") => IsSnapshot(th[r].engine)
       /\ AnsweredFromDocs(r) => IsSnapshot(resp[r].snap)
  /\ (\E p \in Procs : Loading(p) /\ th[p].pc # "check") => dirExists

\* A reload has answered ok and the index is the one it built, from a
\* content of the directory written while the server was up.
C7_Witness ==
  \E r \in Threads :
    /\ th[r].kind = "reload" /\ resp[r].status = "ok"
    /\ index.ver >= 1 /\ index.docs # {}
    /\ NeverEmpty

(***************************************************************************)
(* C8: a change of the directory changes neither the index nor a query     *)
(* engine taken from it; a docs query takes the index as it is when the    *)
(* handler reaches it and answers from that one, so a change made after    *)
(* the last load does not show in answers.                                 *)
(***************************************************************************)
C8_DirChangeStep ==
  dirFiles' # dirFiles =>
    /\ index' = index
    /\ \A r \in Threads : th'[r].engine = th[r].engine

C8_EngineStep ==
  \A r \in Threads :
    (IsChat(r) /\ th[r].pc = "dispatch" /\ th'[r].pc = "query") =>
      th'[r].engine = index

C8_AnswerStep ==
  \A r \in Threads :
    (IsChat(r) /\ th[r].pc = "query" /\ th'[r].pc = "done"
       /\ resp'[r].code = 200) =>
      resp'[r].snap = th[r].engine

\* C8: directory changes leave the index alone, and a docs answer comes
\* from the index the handler took.
C8_IndexIgnoresDirectory ==
  [][C8_DirChangeStep /\ C8_EngineStep /\ C8_AnswerStep]_vars

\* A docs query answered from the loaded index although the directory has
\* changed since.
C8_Witness ==
  \E r \in Threads :
    /\ AnsweredFromDocs(r)
    /\ resp[r].snap = index
    /\ index.ver < Ver
    /\ index.docs # dirFiles /\ index.docs # {}

(***************************************************************************)
(* C9: no step of a /chat request changes the index or the directory; the  *)
(* index is replaced only by the load of the import and by /reload-docs;   *)
(* what a /chat request does depends on its body alone.                    *)
(***************************************************************************)
C9_ChatFrame ==
  \A r \in Threads : ChatStep(r) => (index' = index /\ DirUnchanged)

C9_OnlyLoadsAssign ==
  index' # index =>
    \E p \in Procs : Loading(p) /\ th[p].pc = "assign" /\ th'[p].pc # "assign"
                       /\ index' = th[p].built

\* Two requests with the same body are in the same mode, and once
\* answered carry the same status or differ by a backend's failure only.
C9_SameBodySameMode ==
  \A r, q \in Threads :
    (IsChat(r) /\ IsChat(q) /\ th[r].data = th[q].data) =>
      /\ th[r].mode = th[q].mode
      /\ th[r].user_message = th[q].user_message
      /\ (th[r].pc = "done" /\ th[q].pc = "done") =>
           \/ resp[r].code = resp[q].code /\ resp[r].mode = resp[q].mode
           \/ 500 \in {resp[r].code, resp[q].code}

\* C9: /chat changes neither index nor directory, only loads assign the
\* index, and the same body is handled the same way.
C9_ChatChangesNothing ==
  /\ []C9_SameBodySameMode
  /\ [][C9_ChatFrame /\ C9_OnlyLoadsAssign]_vars

\* Two docs queries with the same body, answered from different indexes.
C9_Witness ==
  \E r, q \in Threads :
    /\ r # q /\ th[r].data = th[q].data
    /\ AnsweredFromDocs(r) /\ AnsweredFromDocs(q)
    /\ resp[r].snap # resp[q].snap
=============================================================================
